---------------------------- MODULE Spec2Model ----------------------------
(***************************************************************************)
(* Model of Settings::normalize (src/src/operations/normalize.rs): the     *)
(* two-pass loudness normalisation of an interleaved sample stream.        *)
(*                                                                         *)
(* Numbers.  Samples are small non-negative integers (each one an exact    *)
(* f32).  An f64 intermediate is kept as an exact real: the record         *)
(* [n, d, root] stands for n/d, or for sqrt(n/d) when root is TRUE, with   *)
(* d = 0 for the IEEE specials (n/0 = +inf, 0/0 = NaN).  The cast `as f32` *)
(* rounds that real to a 24-bit significand, round-to-nearest-even, and    *)
(* the f32 product sample * gain rounds again.  An f32 is the record       *)
(* [k, m, e]: k = "fin" stands for m * 2^e with 2^23 <= m < 2^24.          *)
(***************************************************************************)
EXTENDS Integers, Sequences, FiniteSets, TLC

\* ------------------------------------------------------------------ bounds
\* Longest source, in samples (interleaved).
MaxSamples == 4

\* Sample values a source may hold.
Amps == {0, 1, 2, 41}

\* Target levels in dB a caller may ask for.
Targets == {0, 20}

\* Channel counts of a source (Stream Spec: a positive integer).
ChannelCounts == {1, 2}

\* Significand width of an f32.
MantBits == 24

\* ------------------------------------------------------------- arithmetic
RECURSIVE GCD(_, _)
GCD(a, b) == IF b = 0 THEN a ELSE GCD(b, a % b)

\* n/d in lowest terms; n/0 is +inf (n > 0) or NaN (n = 0).
Rat(n, d) ==
    IF d = 0 THEN [n |-> IF n = 0 THEN 0 ELSE 1, d |-> 0]
    ELSE LET g == GCD(n, d) IN [n |-> n \div g, d |-> d \div g]

Real(n, d, root) ==
    LET q == Rat(n, d) IN [n |-> q.n, d |-> q.d, root |-> root]

NaN32  == [k |-> "nan",  m |-> 0, e |-> 0]
Inf32  == [k |-> "inf",  m |-> 0, e |-> 0]
Zero32 == [k |-> "zero", m |-> 0, e |-> 0]
Fin32(m, e) == [k |-> "fin", m |-> m, e |-> e]

\* 10.0_f64.powf(target / per), for a target that is a multiple of per.
Pow10(target, per) ==
    LET x == target \div per IN
    IF x >= 0 THEN Real(10 ^ x, 1, FALSE) ELSE Real(1, 10 ^ (0 - x), FALSE)

\* f64 division a / x of a positive rational a by a measurement x.
FDiv(a, x) ==
    IF x.root
    THEN Real(a.n * a.n * x.d, a.d * a.d * x.n, TRUE)
    ELSE Real(a.n * x.d, a.d * x.n, FALSE)

\* f64 square root of a rational.
FSqrt(a) == [n |-> a.n, d |-> a.d, root |-> TRUE]

\* Round a 25-bit significand q (with a sticky flag for the bits below it)
\* standing for q * 2^e to 24 bits, ties to even.
RoundEven(q, sticky, e) ==
    LET m  == q \div 2
        up == (q % 2 = 1) /\ (sticky \/ m % 2 = 1)
        m2 == IF up THEN m + 1 ELSE m
    IN  IF m2 = 2 ^ MantBits
        THEN Fin32(2 ^ (MantBits - 1), e + 2)
        ELSE Fin32(m2, e + 1)

\* (q + r/d) * 2^e, 0 <= r < d, to an f32: long division until q has 25 bits.
RECURSIVE RoundRatFrom(_, _, _, _)
RoundRatFrom(q, r, d, e) ==
    IF q >= 2 ^ MantBits
    THEN RoundEven(q, r # 0, e)
    ELSE RoundRatFrom(2 * q + (IF 2 * r >= d THEN 1 ELSE 0), (2 * r) % d, d, e - 1)

RoundRat(n, d) == RoundRatFrom(n \div d, n % d, d, 0)

\* The least power of four times d that exceeds n, as <<scaled d, exponent>>.
RECURSIVE ScaleDen(_, _, _)
ScaleDen(n, d, k) == IF n < d THEN <<d, k>> ELSE ScaleDen(n, 4 * d, k + 1)

\* Digit-by-digit square root of n/d (n < d): q is the root so far, rem the
\* remainder of the integer part, f the remainder of the long division.
RECURSIVE RoundSqrtFrom(_, _, _, _, _)
RoundSqrtFrom(q, rem, f, d, e) ==
    IF q >= 2 ^ MantBits
    THEN RoundEven(q, rem # 0 \/ f # 0, e)
    ELSE LET c == 4 * rem + ((4 * f) \div d)
             g == (4 * f) % d
         IN  IF c >= 4 * q + 1
             THEN RoundSqrtFrom(2 * q + 1, c - (4 * q + 1), g, d, e - 1)
             ELSE RoundSqrtFrom(2 * q, c, g, d, e - 1)

RoundSqrt(n, d) ==
    LET s == ScaleDen(n, d, 0) IN RoundSqrtFrom(0, 0, n, s[1], s[2])

\* The cast `as f32` of an f64.
AsF32(x) ==
    IF x.d = 0 THEN (IF x.n = 0 THEN NaN32 ELSE Inf32)
    ELSE IF x.n = 0 THEN Zero32
    ELSE IF x.root THEN RoundSqrt(x.n, x.d)
    ELSE RoundRat(x.n, x.d)

\* Bring p * 2^e (p > 0) to a 25-bit significand, then round it.
RECURSIVE Norm25(_, _, _)
Norm25(p, sticky, e) ==
    IF p >= 2 ^ (MantBits + 1) THEN Norm25(p \div 2, sticky \/ p % 2 = 1, e + 1)
    ELSE IF p < 2 ^ MantBits THEN Norm25(2 * p, sticky, e - 1)
    ELSE RoundEven(p, sticky, e)

\* The f32 product sample * g of an integer-valued sample and an f32.
MulF32(sample, g) ==
    IF g.k = "nan" THEN NaN32
    ELSE IF g.k = "inf" THEN (IF sample = 0 THEN NaN32 ELSE Inf32)
    ELSE IF g.k = "zero" \/ sample = 0 THEN Zero32
    ELSE Norm25(sample * g.m, FALSE, g.e)

\* ------------------------------------------------------------------ state
VARIABLES
    mode,                 \* Settings.mode: "Amplitude", "Lufs" or "Rms"
    target,               \* Settings.target, in dB
    channel_independent,  \* Settings.channel_independent
    channels,             \* spec.channels of the source
    samples,              \* the source's interleaved samples
    pos,                  \* the source's read cursor, in samples
    pc,                   \* where normalize stands
    analyzer,             \* the analyzer that was constructed, or "none"
    measurement,          \* what analyze returned (<<>> before it returns)
    gain,                 \* the gain vector (<<>> before it is collected)
    frame,                \* the frame of the current loop iteration
    i,                    \* samples of `frame` already written
    loopDone,             \* frames.next() returned None
    output,               \* the samples written to the sink, in order
    progress,             \* calls of progress.next()
    seekCalls,            \* calls of input.seek(0)
    finalizeCalls,        \* calls of output.finalize()
    faults,               \* the errors the streams raised, in order
    result                \* what normalize returned, or "running"

vars == <<mode, target, channel_independent, channels, samples, pos, pc,
          analyzer, measurement, gain, frame, i, loopDone, output, progress,
          seekCalls, finalizeCalls, faults, result>>

settings == <<mode, target, channel_independent, channels, samples>>

Modes == {"Amplitude", "Lufs", "Rms"}

Sources == UNION {[1..n -> Amps] : n \in 0..MaxSamples}

\* input.duration(): samples per channel.
Duration == Len(samples) \div channels

Init ==
    /\ mode \in Modes
    /\ target \in Targets
    /\ channel_independent \in BOOLEAN
    /\ channels \in ChannelCounts
    /\ samples \in Sources
    /\ pos = 0
    /\ pc = "Start"
    /\ analyzer = "none"
    /\ measurement = <<>>
    /\ gain = <<>>
    /\ frame = <<>>
    /\ i = 0
    /\ loopDone = FALSE
    /\ output = <<>>
    /\ progress = 0
    /\ seekCalls = 0
    /\ finalizeCalls = 0
    /\ faults = <<>>
    /\ result = "running"

\* ------------------------------------------------------------ the analyzers
\* Length of a Loudness Measurement Result.
MeasurementLen == IF channel_independent THEN channels ELSE 1

RECURSIVE SumSq(_)
SumSq(s) == IF s = <<>> THEN 0 ELSE s[1] * s[1] + SumSq(Tail(s))

\* The samples of channel c (1-based) among the complete frames of s.
ChannelOf(s, c) == [k \in 1..(Len(s) \div channels) |-> s[(k - 1) * channels + c]]

\* Rms::analyze: square root of (accumulated squares / frame count).
RmsOf(s) ==
    IF channel_independent
    THEN [c \in 1..channels |->
            Real(SumSq(ChannelOf(s, c)), Len(s) \div channels, TRUE)]
    ELSE <<Real(SumSq(s), Len(s) \div channels, TRUE)>>

\* Values an integrated-loudness measurement may take (positive powers).
LufsLevels == {Real(1, 4, FALSE), Real(1, 1, FALSE), Real(4, 1, FALSE)}

\* Lufs::analyze: one loudness value per channel, or one linked value.
LufsResults == [1..MeasurementLen -> LufsLevels]

\* -------------------------------------------------------------- normalize
\* Mutant of Propagate: the error is swallowed and the run reports success.
PropagateAsOk(e) ==
    /\ pc' = "Failed"
    /\ result' = "Ok"
    /\ faults' = Append(faults, e)

\* `?` and `return Err(e.into())`: the run ends with the error it was given.
Propagate(e) ==
    /\ pc' = "Failed"
    /\ result' = e
    /\ faults' = Append(faults, e)

\* The closure of line 72, Lufs: (10^(target/10) / x).sqrt() as f32.
LufsGain(x) == AsF32(FSqrt(FDiv(Pow10(target, 10), x)))

\* Mutant of RmsGain: the ratio is inverted, x / 10^(target/20).
RmsGainInverted(x) ==
    LET p == Pow10(target, 20)
    IN  AsF32(Real(x.n * p.d * p.d, x.d * p.n * p.n, TRUE))

\* The closure of line 80, Rms: (10^(target/20) / x) as f32.
RmsGain(x) == AsF32(FDiv(Pow10(target, 20), x))

\* Mutant of CollectGain: a linked value is broadcast to one gain per channel.
CollectGainBroadcast(m) ==
    [c \in 1..channels |->
        LET x == m[IF Len(m) = 1 THEN 1 ELSE c]
        IN  IF mode = "Lufs" THEN LufsGain(x) ELSE RmsGain(x)]

\* iter().map(..).collect(): one gain per measured value.
CollectGain(m) ==
    [c \in 1..Len(m) |-> IF mode = "Lufs" THEN LufsGain(m[c]) ELSE RmsGain(m[c])]

\* Mutant of GainIndex: every sample is scaled by gain[0].
GainIndexLinked(idx) == 0

\* Mutant of GainIndex: every sample is scaled by gain[i].
GainIndexPerChannel(idx) == idx

\* The index into gain for sample idx (0-based) of a frame.
GainIndex(idx) == IF channel_independent THEN idx ELSE 0

\* The value written for sample idx (0-based) of frame f.
Scaled(f, idx) == MulF32(f[idx + 1], gain[GainIndex(idx) + 1])

\* Mutant of Dispatch: Amplitude falls back to the Rms analyzer.
DispatchFallback ==
    /\ pc = "Start"
    /\ pc' = "Measuring"
    /\ analyzer' = (IF mode = "Amplitude" THEN "Rms" ELSE mode)
    /\ UNCHANGED <<settings, pos, measurement, gain, frame, i, loopDone,
                   output, progress, seekCalls, finalizeCalls, faults, result>>

\* match &self.mode: Amplitude panics, Lufs and Rms construct their analyzer.
Dispatch ==
    /\ pc = "Start"
    /\ IF mode = "Amplitude"
       THEN /\ pc' = "Panicked"
            /\ result' = "panic: Not implemented yet!"
            /\ UNCHANGED analyzer
       ELSE /\ pc' = "Measuring"
            /\ analyzer' = mode
            /\ UNCHANGED result
    /\ UNCHANGED <<settings, pos, measurement, gain, frame, i, loopDone,
                   output, progress, seekCalls, finalizeCalls, faults>>

\* analyze, pass 1: the analyzer takes the next frame off the source.
AnalyzeFrame ==
    /\ pc = "Measuring" /\ measurement = <<>>
    /\ pos + channels <= Len(samples)
    /\ pos' = pos + channels
    /\ UNCHANGED <<settings, pc, analyzer, measurement, gain, frame, i,
                   loopDone, output, progress, seekCalls, finalizeCalls,
                   faults, result>>

\* analyze, pass 1: the source ends in a partial frame.
AnalyzeMalformed ==
    /\ pc = "Measuring" /\ measurement = <<>>
    /\ pos < Len(samples) /\ pos + channels > Len(samples)
    /\ Propagate("Err(Malformed)")
    /\ UNCHANGED <<settings, pos, analyzer, measurement, gain, frame, i,
                   loopDone, output, progress, seekCalls, finalizeCalls>>

\* analyze, pass 1: a read of the source fails.
AnalyzeReadFails ==
    /\ pc = "Measuring" /\ measurement = <<>>
    /\ pos < Len(samples)
    /\ Propagate("Err(AnalyzerRead)")
    /\ UNCHANGED <<settings, pos, analyzer, measurement, gain, frame, i,
                   loopDone, output, progress, seekCalls, finalizeCalls>>

\* analyze returns its measurement at the end of the stream.
AnalyzeReturn ==
    /\ pc = "Measuring" /\ measurement = <<>>
    /\ pos = Len(samples)
    /\ IF analyzer = "Rms"
       THEN measurement' = RmsOf(samples)
       ELSE measurement' \in LufsResults
    /\ UNCHANGED <<settings, pos, pc, analyzer, gain, frame, i, loopDone,
                   output, progress, seekCalls, finalizeCalls, faults, result>>

\* let gain = ...collect::<Vec<f32>>()
ResolveGain ==
    /\ pc = "Measuring" /\ measurement # <<>>
    /\ gain' = CollectGain(measurement)
    /\ pc' = "GainResolved"
    /\ UNCHANGED <<settings, pos, analyzer, measurement, frame, i, loopDone,
                   output, progress, seekCalls, finalizeCalls, faults, result>>

\* input.seek(0)?
Seek ==
    /\ pc = "GainResolved"
    /\ seekCalls' = seekCalls + 1
    /\ pos' = 0
    /\ pc' = "Rewound"
    /\ UNCHANGED <<settings, analyzer, measurement, gain, frame, i, loopDone,
                   output, progress, finalizeCalls, faults, result>>

SeekFails ==
    /\ pc = "GainResolved"
    /\ seekCalls' = seekCalls + 1
    /\ Propagate("Err(Seek)")
    /\ UNCHANGED <<settings, pos, analyzer, measurement, gain, frame, i,
                   loopDone, output, progress, finalizeCalls>>

\* Mutant of AtLoopHead: the loop may start without the source being rewound.
AtLoopHeadNoRewind ==
    /\ pc \in {"GainResolved", "Rewound", "Applying"}
    /\ ~loopDone
    /\ i = Len(frame)

\* The loop is at its head: the frame before, if any, is written out.
AtLoopHead ==
    /\ pc \in {"Rewound", "Applying"}
    /\ ~loopDone
    /\ i = Len(frame)

\* Mutant of NextFrame: the frame is taken without progress.next().
NextFrameNoProgress ==
    /\ AtLoopHead
    /\ pos + channels <= Len(samples)
    /\ frame' = SubSeq(samples, pos + 1, pos + channels)
    /\ pos' = pos + channels
    /\ i' = 0
    /\ pc' = "Applying"
    /\ UNCHANGED <<settings, analyzer, measurement, gain, loopDone, output,
                   progress, seekCalls, finalizeCalls, faults, result>>

\* frames.next() yields a frame: progress.next(), then the frame is taken.
NextFrame ==
    /\ AtLoopHead
    /\ pos + channels <= Len(samples)
    /\ progress' = progress + 1
    /\ frame' = SubSeq(samples, pos + 1, pos + channels)
    /\ pos' = pos + channels
    /\ i' = 0
    /\ pc' = "Applying"
    /\ UNCHANGED <<settings, analyzer, measurement, gain, loopDone, output,
                   seekCalls, finalizeCalls, faults, result>>

\* frames.next() yields an error: progress.next(), then return Err(e.into()).
NextFrameFails ==
    /\ AtLoopHead
    /\ pos < Len(samples)
    /\ progress' = progress + 1
    /\ Propagate("Err(Frame)")
    /\ UNCHANGED <<settings, pos, analyzer, measurement, gain, frame, i,
                   loopDone, output, seekCalls, finalizeCalls>>

\* frames.next() returns None: the loop ends.
EndOfStream ==
    /\ AtLoopHead
    /\ pos = Len(samples)
    /\ loopDone' = TRUE
    /\ pc' = "Applying"
    /\ UNCHANGED <<settings, pos, analyzer, measurement, gain, frame, i,
                   output, progress, seekCalls, finalizeCalls, faults, result>>

\* output.write_sample(val)? for the next sample of the frame; an index
\* beyond the gain vector panics.
WriteSample ==
    /\ pc = "Applying" /\ i < Len(frame)
    /\ IF GainIndex(i) < Len(gain)
       THEN /\ output' = Append(output, Scaled(frame, i))
            /\ i' = i + 1
            /\ UNCHANGED <<pc, result>>
       ELSE /\ pc' = "Panicked"
            /\ result' = "panic: index out of bounds"
            /\ UNCHANGED <<output, i>>
    /\ UNCHANGED <<settings, pos, analyzer, measurement, gain, frame,
                   loopDone, progress, seekCalls, finalizeCalls, faults>>

WriteSampleFails ==
    /\ pc = "Applying" /\ i < Len(frame)
    /\ GainIndex(i) < Len(gain)
    /\ Propagate("Err(Write)")
    /\ UNCHANGED <<settings, pos, analyzer, measurement, gain, frame, i,
                   loopDone, output, progress, seekCalls, finalizeCalls>>

\* Mutant of Finalize: finalize is called inside the loop.
FinalizeInLoop ==
    /\ pc = "Applying"
    /\ finalizeCalls' = finalizeCalls + 1
    /\ pc' = "Done"
    /\ result' = "Ok"
    /\ UNCHANGED <<settings, pos, analyzer, measurement, gain, frame, i,
                   loopDone, output, progress, seekCalls, faults>>

\* output.finalize()?; Ok(())
Finalize ==
    /\ pc = "Applying" /\ loopDone
    /\ finalizeCalls' = finalizeCalls + 1
    /\ pc' = "Done"
    /\ result' = "Ok"
    /\ UNCHANGED <<settings, pos, analyzer, measurement, gain, frame, i,
                   loopDone, output, progress, seekCalls, faults>>

FinalizeFails ==
    /\ pc = "Applying" /\ loopDone
    /\ finalizeCalls' = finalizeCalls + 1
    /\ Propagate("Err(Finalize)")
    /\ UNCHANGED <<settings, pos, analyzer, measurement, gain, frame, i,
                   loopDone, output, progress, seekCalls>>

Next ==
    \/ Dispatch
    \/ AnalyzeFrame
    \/ AnalyzeMalformed
    \/ AnalyzeReadFails
    \/ AnalyzeReturn
    \/ ResolveGain
    \/ Seek
    \/ SeekFails
    \/ NextFrame
    \/ NextFrameFails
    \/ EndOfStream
    \/ WriteSample
    \/ WriteSampleFails
    \/ Finalize
    \/ FinalizeFails

Spec == Init /\ [][Next]_vars

\* ----------------------------------------------------------------- claims
One32       == Fin32(2 ^ (MantBits - 1), 1 - MantBits)
BelowOne32  == Fin32(2 ^ MantBits - 1, 0 - MantBits)

PhaseRank(p) ==
    CASE p = "Start"        -> 0
      [] p = "Measuring"    -> 1
      [] p = "GainResolved" -> 2
      [] p = "Rewound"      -> 3
      [] p = "Applying"     -> 4
      [] p = "Done"         -> 5
      [] OTHER              -> 6

\* C1: a run passes through Measuring, GainResolved, Rewound, Applying, Done
\* in that order, one state at a time, none revisited or skipped; the gain is
\* collected only once the analyzer has consumed the whole source and
\* returned; the source is sought to 0 exactly once, after the gain is
\* resolved and before pass 2 reads a frame; no sample is written before the
\* source is rewound.
C1_PhaseOrder ==
    [][ /\ (pc' # pc /\ pc' \notin {"Failed", "Panicked"})
            => PhaseRank(pc') = PhaseRank(pc) + 1
        /\ gain' # gain
            => (measurement # <<>> /\ pos = Len(samples) /\ seekCalls = 0)
        /\ seekCalls' # seekCalls
            => (seekCalls = 0 /\ pc = "GainResolved" /\ gain # <<>>
                /\ output = <<>> /\ progress = 0)
        /\ pc' = "Rewound" => (pos' = 0 /\ seekCalls' = 1)
        /\ (frame' # frame \/ output' # output \/ progress' # progress)
            => (seekCalls = 1 /\ PhaseRank(pc) \in {3, 4})
        /\ pc' = "Done" => seekCalls' = 1
      ]_vars

C1_Witness ==
    pc = "Done" /\ seekCalls = 1 /\ Len(output) = MaxSamples

\* C2: every written sample is the input sample at the same interleaved
\* place times gain[its channel] in channel-independent mode and times
\* gain[0] in linked mode, and a successful run has written all M*N samples.
C2_ScaledOutput ==
    /\ Len(output) <= Len(samples)
    /\ \A k \in 1..Len(output) :
          output[k] = MulF32(samples[k],
                             gain[IF channel_independent
                                  THEN ((k - 1) % channels) + 1 ELSE 1])
    /\ result = "Ok" =>
          /\ Len(samples) = Duration * channels
          /\ Len(output) = Duration * channels

C2_Witness ==
    /\ result = "Ok" /\ channels = 2 /\ Len(output) = 4
    /\ samples[1] # samples[2] /\ samples[1] # 0 /\ samples[2] # 0
    /\ gain[1].k = "fin" /\ (~channel_independent \/ gain[1] # gain[2])

ZeroMeasured ==
    \E c \in 1..Len(measurement) : measurement[c].n = 0 /\ measurement[c].d # 0

IsNumber32(v) == v.k \in {"fin", "zero"}

\* C3: when a channel's measurement is zero, gain resolution ends the run
\* with a fault: the run never goes on to Rewound, Applying or Done, the
\* gain vector never holds an infinite or undefined value, and no sample
\* derived from one is written.
C3_DegenerateFault ==
    ZeroMeasured =>
        /\ pc \in {"Measuring", "Failed"}
        /\ \A c \in 1..Len(gain) : IsNumber32(gain[c])
        /\ \A k \in 1..Len(output) : IsNumber32(output[k])

\* C4: Amplitude mode ends the run at once with the "Not implemented yet!"
\* panic: the source is never read or rewound, no analyzer is constructed,
\* nothing is written and the output is never finalized.
C4_AmplitudeUnimplemented ==
    mode = "Amplitude" =>
        /\ pc \in {"Start", "Panicked"}
        /\ pc = "Panicked" => result = "panic: Not implemented yet!"
        /\ pc = "Start" => result = "running"
        /\ analyzer = "none" /\ measurement = <<>> /\ gain = <<>>
        /\ pos = 0 /\ seekCalls = 0 /\ progress = 0
        /\ output = <<>> /\ finalizeCalls = 0

C4_Witness ==
    mode = "Amplitude" /\ pc = "Panicked" /\ Len(samples) = MaxSamples

\* C5: finalize is called exactly once on a run that returns Ok, after the
\* last sample is written, and never on a run that ends in an analyzer,
\* seek, frame or write error (or a panic).
C5_FinalizeOnce ==
    /\ finalizeCalls <= 1
    /\ result = "Ok" => finalizeCalls = 1
    /\ finalizeCalls = 1 =>
          /\ loopDone /\ i = Len(frame) /\ pos = Len(samples)
          /\ Len(output) = Len(samples)
          /\ result \in {"Ok", "Err(Finalize)"}
    /\ (pc \in {"Failed", "Panicked"} /\ result # "Err(Finalize)")
          => finalizeCalls = 0

C5_Witness ==
    result = "Ok" /\ finalizeCalls = 1 /\ Len(output) = MaxSamples

\* C6: a fault at any step ends the run there: it is the only fault of the
\* run (nothing is retried), no step follows it, and normalize returns that
\* fault's error, not Ok.
C6_FaultAborts ==
    /\ faults # <<>> =>
          /\ Len(faults) = 1
          /\ pc = "Failed"
          /\ result = faults[1] /\ result # "Ok"
    /\ pc = "Failed" => (faults # <<>> /\ ~ENABLED Next)

C6_Witness ==
    /\ pc = "Failed" /\ result = "Err(Write)"
    /\ output # <<>> /\ Len(output) < Len(samples)

\* C7 as stated: the gain vector always has as many entries as the source
\* has channels.
C7_LengthIsChannels ==
    gain # <<>> => Len(gain) = channels

\* C7 amended: the gain vector has one entry per measured value (the channel
\* count when channel-independent, one otherwise) and is never modified once
\* collected.
C7_LengthIsMeasurementLen ==
    [][ /\ gain' # <<>> =>
              Len(gain') = (IF channel_independent THEN channels ELSE 1)
        /\ gain # <<>> => gain' = gain
      ]_vars

C7_Witness ==
    /\ pc = "Done" /\ ~channel_independent /\ channels = 2
    /\ Len(gain) = 1 /\ Len(output) = 4

\* Frames the Frame Iterator has yielded for writing in pass 2.
Yielded ==
    IF seekCalls = 1 /\ result # "Err(Seek)" THEN pos \div channels ELSE 0

\* C8 as stated: the progress count always equals the number of frames
\* yielded for writing (an error item does not advance it).
C8_ProgressIsYielded ==
    progress = Yielded

\* C8 amended: progress is advanced once per item the Frame Iterator yields
\* in pass 2, a frame or a frame error: it never decreases, it equals the
\* frames yielded for writing plus one for the error item that ended the
\* run, and a successful run ends with it at the source's frame count.
C8_ProgressPerItem ==
    [][ /\ progress' >= progress
        /\ progress' = Yielded' + (IF result' = "Err(Frame)" THEN 1 ELSE 0)
        /\ result' = "Ok" => progress' = Duration
      ]_vars

C8_Witness ==
    result = "Err(Frame)" /\ progress = 2 /\ pos = channels

\* Channel c holds the same amplitude a in every frame.
ConstantChannel(c, a) ==
    /\ Len(samples) >= channels
    /\ Len(samples) % channels = 0
    /\ \A k \in 1..Duration : samples[(k - 1) * channels + c] = a

RmsIndependentAtZero ==
    mode = "Rms" /\ target = 0 /\ channel_independent

\* C9 as stated: a channel of constant amplitude A > 0, normalised by RMS to
\* target 0 in channel-independent mode, is written with amplitude 1.
C9_ConstantToOne ==
    RmsIndependentAtZero =>
        \A c \in 1..channels : \A a \in Amps \ {0} :
            ConstantChannel(c, a) =>
                \A k \in 1..Len(output) :
                    (k - 1) % channels = c - 1 => output[k] = One32

\* C9 amended: frames (1,2) are measured as RMS (1,2), resolved to gain
\* (1, 1/2) and written as (1,1); a channel of constant amplitude A > 0 is
\* measured as A, gets the f32 nearest to 1/A as gain and is written as the
\* f32 product of A and that gain, which is 1 or the f32 just below 1.
C9_ConstantToOneRounded ==
    RmsIndependentAtZero =>
        /\ \A c \in 1..channels : \A a \in Amps \ {0} :
              ConstantChannel(c, a) =>
                /\ measurement # <<>> => measurement[c] = Real(a * a, 1, TRUE)
                /\ gain # <<>> => gain[c] = RoundRat(1, a)
                /\ \A k \in 1..Len(output) :
                      (k - 1) % channels = c - 1 =>
                          /\ output[k] = MulF32(a, RoundRat(1, a))
                          /\ output[k] \in {One32, BelowOne32}
                          /\ a \in {1, 2} => output[k] = One32
        /\ (channels = 2 /\ ConstantChannel(1, 1) /\ ConstantChannel(2, 2)) =>
              /\ gain # <<>> => gain = <<One32, Fin32(2 ^ (MantBits - 1), 0 - MantBits)>>
              /\ result = "Ok" => output = [k \in 1..Len(samples) |-> One32]

C9_Witness ==
    /\ RmsIndependentAtZero /\ result = "Ok"
    /\ channels = 2 /\ samples = <<1, 2, 1, 2>>
    /\ output = <<One32, One32, One32, One32>>

\* C10: every gain lookup of pass 2 is within the gain vector: the index is
\* below its length, gain[0] exists, and no run ends in an index panic.
C10_GainIndexInBounds ==
    /\ (pc = "Applying" /\ i < Len(frame)) =>
          /\ Len(gain) >= 1
          /\ Len(frame) = channels
          /\ (IF channel_independent THEN i ELSE 0) < Len(gain)
    /\ result # "panic: index out of bounds"
    /\ Len(output) > 0 => Len(gain) >= 1

C10_Witness ==
    /\ pc = "Applying" /\ channel_independent /\ channels = 2
    /\ i = 1 /\ Len(frame) = 2 /\ Len(gain) = 2

=============================================================================
